---- MODULE Spec2Model ----
(***************************************************************************)
(* Model of ftd2xx-embedded-hal (src/lib.rs): the typestate wrapper        *)
(* Ft232hHal<Uninitialized|Initialized>, the pin ledger of Ft232hInner,    *)
(* and the Mutex<RefCell<Ft232hInner>> shared by the peripheral views.     *)
(*                                                                         *)
(* Threads call the public API.  A call is a short sequence of steps:      *)
(* take the mutex, run the body, drop the guard.  A panic unwinds the      *)
(* calling thread (it never runs again) and, when it happens while the     *)
(* guard is held, poisons the mutex.                                       *)
(***************************************************************************)
EXTENDS Integers, Sequences, FiniteSets, Bags, TLC

\* ---------------------------------------------------------------- bounds
NumThreads == 2
MaxAllocCalls == 3
MaxIdx == 9
MaxViews == 9
MaxDrops == 1

Threads == 1..NumThreads

\* ------------------------------------------------------ program constants
NumPins == 8
PinIdx == 0..(NumPins - 1)
None == "None"
PinUse == {"I2c", "Spi", "Output"}
SerialUse == {"I2c", "Spi"}

\* Option<T> values other than pin slots: Nothing is None, Some(x) is Some(x)
Nothing == <<>>
Some(x) == <<x>>

\* impl Display for PinUse
Display(u) ==
  CASE u = "I2c" -> "I2C"
    [] u = "Spi" -> "SPI"
    [] u = "Output" -> "GPIO"

\* From<Ft232h> for Ft232hInner
InitialValue == 0
InitialDirection_noOutputs == InitialValue
InitialDirection == 251
InitialPins == [p \in PinIdx |-> None]

\* const DEFAULT: MpsseSettings of init_default (durations in milliseconds)
DEFAULT_libraryDefault ==
  [reset |-> TRUE, in_transfer_size |-> 4096, read_timeout |-> 1000,
   write_timeout |-> 1000, latency_timer |-> 16, mask |-> 0,
   clock_frequency |-> Nothing]
DEFAULT ==
  [reset |-> TRUE, in_transfer_size |-> 4096, read_timeout |-> 1000,
   write_timeout |-> 1000, latency_timer |-> 16, mask |-> 0,
   clock_frequency |-> Some(100000)]

\* Caller-supplied settings handed to init
MaskInputs == {0, 251, 255}
ClockInputs == {Nothing, Some(500000)}
CustomSettings ==
  {[reset |-> FALSE, in_transfer_size |-> 512, read_timeout |-> 500,
    write_timeout |-> 250, latency_timer |-> 2, mask |-> m,
    clock_frequency |-> c] : m \in MaskInputs, c \in ClockInputs}

VARIABLES
  phase,       \* typestate of the wrapper value: Uninitialized, Initialized, Dropped
  entry,       \* which initialisation entry point was called
  initResult,  \* what init returned: None, "Ok", "Timeout"
  driverCfg,   \* the MpsseSettings the driver's initialize_mpsse received
  pins,        \* Ft232hInner.pins
  direction,   \* Ft232hInner.direction
  value,       \* Ft232hInner.value
  holders,     \* threads holding a MutexGuard of mtx
  poisoned,    \* poison flag of mtx
  pc,          \* per thread: position in its current call
  op,          \* per thread: the call it is in (or died in)
  todo,        \* per thread: pin indices still to allocate
  current,     \* per thread: allocate_pin's read of self.pins[idx]
  cause,       \* per thread: the panic it died of
  arg,         \* per thread: init's mpsse_settings argument
  ioResult,    \* per thread: result of the driver call made in init
  views,       \* bag of peripheral views handed to callers
  errors,      \* recoverable errors returned by view acquisitions and operations
  dropped,     \* views their callers have dropped
  lastAlloc,   \* record of the last direct allocate_pin call
  nAlloc       \* number of direct allocate_pin calls

vars == <<phase, entry, initResult, driverCfg, pins, direction, value,
          holders, poisoned, pc, op, todo, current, cause, arg, ioResult,
          views, errors, dropped, lastAlloc, nAlloc>>

innerVars == <<pins, direction, value>>
allocVars == <<lastAlloc, nAlloc>>
viewVars == <<views, errors, dropped>>
initVars == <<phase, entry, initResult, driverCfg, arg, ioResult>>

NoOp == [kind |-> "none", idx |-> -1, pin |-> -1]
NoPanic == [kind |-> "none", idx |-> -1, purpose |-> "", current |-> ""]
PanicPoison == [kind |-> "poison", idx |-> -1, purpose |-> "", current |-> ""]

\* assert!(idx < 8, "Pin index {} is out of range 0 - 7", idx)
PanicRange(idx) ==
  [kind |-> "range", idx |-> idx, purpose |-> "", current |-> ""]

\* slice indexing panics out of bounds
PanicBounds(idx) ==
  [kind |-> "bounds", idx |-> idx, purpose |-> "", current |-> ""]

\* panic!("Unable to allocate pin {} for {}, pin is already allocated for {}")
PanicConflict_swapped(idx, purpose, cur) ==
  [kind |-> "conflict", idx |-> idx, purpose |-> Display(cur),
   current |-> Display(purpose)]
PanicConflict(idx, purpose, cur) ==
  [kind |-> "conflict", idx |-> idx, purpose |-> Display(purpose),
   current |-> Display(cur)]

\* ------------------------------------------------- Ft232hInner::allocate_pin
AssertInRange(idx) == idx < NumPins

IsAllocated_never(cur) == FALSE
IsAllocated(cur) == cur # None

ReadSlot(p, idx) == p[idx]

WriteSlot_noop(p, idx, purpose) == p
WriteSlot(p, idx, purpose) == [p EXCEPT ![idx] = purpose]

allocate_pin_wrapping(p, idx, purpose) ==
  IF IsAllocated(ReadSlot(p, idx % NumPins))
    THEN [pins |-> p,
          panic |-> PanicConflict(idx, purpose, ReadSlot(p, idx % NumPins))]
    ELSE [pins |-> WriteSlot(p, idx % NumPins, purpose), panic |-> NoPanic]
allocate_pin(p, idx, purpose) ==
  IF ~AssertInRange(idx)
    THEN [pins |-> p, panic |-> PanicRange(idx)]
  ELSE IF idx \notin DOMAIN p
    THEN [pins |-> p, panic |-> PanicBounds(idx)]
  ELSE IF IsAllocated(ReadSlot(p, idx))
    THEN [pins |-> p, panic |-> PanicConflict(idx, purpose, ReadSlot(p, idx))]
  ELSE [pins |-> WriteSlot(p, idx, purpose), panic |-> NoPanic]

\* ------------------------------------------------------------------ mutex
MutexFree_racy(h) == TRUE
MutexFree(h) == h = {}

\* the MutexGuard is dropped at the end of its scope and on unwinding
GuardDrop_leak(h, t) == h
GuardDrop(h, t) == h \ {t}

Init ==
  /\ phase = "Uninitialized"
  /\ entry = None
  /\ initResult = None
  /\ driverCfg = Nothing
  /\ pins = InitialPins
  /\ direction = InitialDirection
  /\ value = InitialValue
  /\ holders = {}
  /\ poisoned = FALSE
  /\ pc = [t \in Threads |-> "idle"]
  /\ op = [t \in Threads |-> NoOp]
  /\ todo = [t \in Threads |-> <<>>]
  /\ current = [t \in Threads |-> None]
  /\ cause = [t \in Threads |-> NoPanic]
  /\ arg = [t \in Threads |-> Nothing]
  /\ ioResult = [t \in Threads |-> None]
  /\ views = EmptyBag
  /\ errors = {}
  /\ dropped = {}
  /\ lastAlloc = [idx |-> -1, purpose |-> None, panic |-> NoPanic]
  /\ nAlloc = 0


\* ------------------------------------------------------------ helpers
\* thread t panics: it unwinds and never runs again; a guard it holds is
\* dropped while panicking, which poisons the mutex
Panic(t, why) ==
  /\ pc' = [pc EXCEPT ![t] = "dead"]
  /\ cause' = [cause EXCEPT ![t] = why]
  /\ poisoned' = (poisoned \/ t \in holders)
  /\ holders' = GuardDrop(holders, t)

\* thread t returns to its caller
Return(t) ==
  /\ pc' = [pc EXCEPT ![t] = "idle"]
  /\ op' = [op EXCEPT ![t] = NoOp]
  /\ todo' = [todo EXCEPT ![t] = <<>>]
  /\ current' = [current EXCEPT ![t] = None]
  /\ holders' = GuardDrop(holders, t)

\* mtx.lock().expect("Failed to aquire FTDI mutex"): blocks until the mutex
\* is free; a poisoned mutex makes expect panic, dropping the guard at once,
\* before the body of the call has run
Lock_ignorePoison(t, o, startpc, pinlist) ==
  /\ pc[t] = "idle"
  /\ MutexFree(holders)
  /\ pc' = [pc EXCEPT ![t] = startpc]
  /\ holders' = holders \cup {t}
  /\ op' = [op EXCEPT ![t] = o]
  /\ todo' = [todo EXCEPT ![t] = pinlist]
  /\ UNCHANGED <<cause, poisoned, current>>
Lock(t, o, startpc, pinlist) ==
  /\ pc[t] = "idle"
  /\ MutexFree(holders)
  /\ IF poisoned
       THEN /\ pc' = [pc EXCEPT ![t] = "dead"]
            /\ cause' = [cause EXCEPT ![t] = PanicPoison]
            /\ UNCHANGED <<holders, op, todo>>
       ELSE /\ pc' = [pc EXCEPT ![t] = startpc]
            /\ holders' = holders \cup {t}
            /\ op' = [op EXCEPT ![t] = o]
            /\ todo' = [todo EXCEPT ![t] = pinlist]
            /\ UNCHANGED cause
  /\ UNCHANGED <<poisoned, current>>

\* --------------------------------------------- Ft232hHal<Uninitialized>
\* init's local copy: let mut settings = *mpsse_settings; settings.mask = inner.direction
init_settings(mpsse_settings, dir) == [mpsse_settings EXCEPT !.mask = dir]

\* the argument of inner.ft.initialize_mpsse(&mpsse_settings)
init_driver_arg(mpsse_settings, settings) == mpsse_settings

\* inner.direction is read at line 285 and never assigned by init
init_direction_fromMask(dir, mpsse_settings) == mpsse_settings.mask
init_direction(dir, mpsse_settings) == dir

\* the `?` after initialize_mpsse, then Ok(Ft232hHal { init: Initialized, .. })
init_phase_always(result) == "Initialized"
init_phase(result) == IF result = "Ok" THEN "Initialized" ELSE "Dropped"

InitCall(t, s, via) ==
  /\ phase = "Uninitialized"
  /\ entry = None
  /\ Lock(t, [kind |-> "init", idx |-> -1, pin |-> -1], "init_body", <<>>)
  /\ entry' = via
  /\ arg' = [arg EXCEPT ![t] = Some(s)]
  /\ phase' = IF poisoned THEN "Dropped" ELSE phase
  /\ UNCHANGED <<initResult, driverCfg, ioResult, innerVars, viewVars, allocVars>>

init(t, s) == InitCall(t, s, "init")

init_default(t) == InitCall(t, DEFAULT, "init_default")

\* lines 284-286: the driver call; the device may not acknowledge in time
init_body(t) ==
  /\ pc[t] = "init_body"
  /\ \E r \in {"Ok", "Timeout"} :
       /\ driverCfg' = Some(init_driver_arg(arg[t][1], init_settings(arg[t][1], direction)))
       /\ ioResult' = [ioResult EXCEPT ![t] = r]
  /\ direction' = init_direction(direction, arg[t][1])
  /\ pc' = [pc EXCEPT ![t] = "init_return"]
  /\ UNCHANGED <<phase, entry, initResult, arg, pins, value, holders, poisoned,
                 op, todo, current, cause, viewVars, allocVars>>

\* lines 286-292: the guard is dropped on both exits
init_return(t) ==
  /\ pc[t] = "init_return"
  /\ Return(t)
  /\ initResult' = ioResult[t]
  /\ phase' = init_phase(ioResult[t])
  /\ arg' = [arg EXCEPT ![t] = Nothing]
  /\ ioResult' = [ioResult EXCEPT ![t] = None]
  /\ UNCHANGED <<entry, driverCfg, innerVars, poisoned, cause, viewVars,
                 allocVars>>

\* ----------------------------------------------- Ft232hHal<Initialized>
\* impl Ft232hHal<Initialized>: the acquisition methods exist for this
\* typestate only
HasAcquireMethods_anyState(ph) == ph \in {"Uninitialized", "Initialized"}
HasAcquireMethods(ph) == ph = "Initialized"

\* adK passes K to OutputPin::new
ad_index_pasted(k) == IF k = 1 THEN 3 ELSE k
ad_index(k) == k

\* the pins a view claims at construction, in the order it claims them
ViewPins(kind, pin) == IF kind \in SerialUse THEN <<0, 1, 2>> ELSE <<pin>>

SeqRange(q) == {q[i] : i \in 1..Len(q)}

ViewRecord(o) == [kind |-> o.kind, pins |-> SeqRange(ViewPins(o.kind, o.pin))]

Acquire(t, kind, k, pin) ==
  /\ HasAcquireMethods(phase)
  /\ BagCardinality(views) < MaxViews
  /\ Lock(t, [kind |-> kind, idx |-> k, pin |-> pin], "check",
          ViewPins(kind, pin))
  /\ UNCHANGED <<initVars, innerVars, viewVars, allocVars>>

spi(t) == Acquire(t, "Spi", -1, -1)

i2c(t) == Acquire(t, "I2c", -1, -1)

ad(t, k) == Acquire(t, "Output", k, ad_index(k))

\* allocate_pin, lines 120-122: the range assertion and the read of the slot
allocate_check(t) ==
  /\ pc[t] = "check"
  /\ LET idx == Head(todo[t]) IN
       IF ~AssertInRange(idx)
         THEN /\ Panic(t, PanicRange(idx))
              /\ UNCHANGED current
       ELSE IF idx \notin DOMAIN pins
         THEN /\ Panic(t, PanicBounds(idx))
              /\ UNCHANGED current
       ELSE /\ current' = [current EXCEPT ![t] = ReadSlot(pins, idx)]
            /\ pc' = [pc EXCEPT ![t] = "claim"]
            /\ UNCHANGED <<cause, poisoned, holders>>
  /\ UNCHANGED <<initVars, innerVars, op, todo, viewVars, allocVars>>

\* allocate_pin, lines 122-129: panic on an occupied slot, else claim it
allocate_claim(t) ==
  /\ pc[t] = "claim"
  /\ LET idx == Head(todo[t]) IN
       IF IsAllocated(current[t])
         THEN /\ Panic(t, PanicConflict(idx, op[t].kind, current[t]))
              /\ UNCHANGED <<pins, todo>>
         ELSE /\ pins' = WriteSlot(pins, idx, op[t].kind)
              /\ todo' = [todo EXCEPT ![t] = Tail(todo[t])]
              /\ pc' = [pc EXCEPT ![t] =
                          IF Tail(todo[t]) = <<>> THEN "finish" ELSE "check"]
              /\ UNCHANGED <<cause, poisoned, holders>>
  /\ UNCHANGED <<initVars, direction, value, op, current, viewVars,
                 allocVars>>

\* the rest of a view's constructor: spi() and i2c() return
\* Result<_, TimeoutError>, ad0..ad7 return the view itself
ViewResults(kind) == IF kind \in SerialUse THEN {"Ok", "Timeout"} ELSE {"Ok"}

view_finish(t) ==
  /\ pc[t] = "finish"
  /\ \E r \in ViewResults(op[t].kind) :
       IF r = "Ok"
         THEN /\ views' = views (+) SetToBag({ViewRecord(op[t])})
              /\ UNCHANGED errors
         ELSE /\ errors' = errors \cup {[kind |-> op[t].kind, err |-> r]}
              /\ UNCHANGED views
  /\ Return(t)
  /\ UNCHANGED <<initVars, innerVars, poisoned, cause, dropped, allocVars>>

\* an operation on a serial-bus view (a bus transaction): it holds the mutex
\* for its duration and returns the driver's result
transfer(t, kind) ==
  /\ CopiesIn(ViewRecord([kind |-> kind, idx |-> -1, pin |-> -1]), views) > 0
  /\ Lock(t, [kind |-> "transfer", idx |-> -1, pin |-> -1], "xfer", <<>>)
  /\ UNCHANGED <<initVars, innerVars, viewVars, allocVars>>

transfer_done(t) ==
  /\ pc[t] = "xfer"
  /\ \E r \in {"Ok", "Timeout"} :
       errors' = IF r = "Ok" THEN errors
                 ELSE errors \cup {[kind |-> "transfer", err |-> r]}
  /\ Return(t)
  /\ UNCHANGED <<initVars, innerVars, poisoned, cause, views, dropped, allocVars>>

\* the caller drops a view: the views have no destructor that touches the
\* device state
drop_view(v) ==
  /\ CopiesIn(v, views) > 0
  /\ Cardinality(dropped) < MaxDrops
  /\ views' = views (-) SetToBag({v})
  /\ dropped' = dropped \cup {v}
  /\ UNCHANGED <<initVars, innerVars, holders, poisoned, pc, op, todo, current,
                 cause, errors, allocVars>>

Next ==
  \/ \E t \in Threads : init_default(t)
  \/ \E t \in Threads, s \in CustomSettings : init(t, s)
  \/ \E t \in Threads : init_body(t)
  \/ \E t \in Threads : init_return(t)
  \/ \E t \in Threads : spi(t)
  \/ \E t \in Threads : i2c(t)
  \/ \E t \in Threads, k \in PinIdx : ad(t, k)
  \/ \E t \in Threads : allocate_check(t)
  \/ \E t \in Threads : allocate_claim(t)
  \/ \E t \in Threads : view_finish(t)
  \/ \E t \in Threads, kind \in SerialUse : transfer(t, kind)
  \/ \E t \in Threads : transfer_done(t)

Spec == Init /\ [][Next]_vars

\* ------------------------------------- the views' lifetime: acquire and drop
AllViews ==
  {[kind |-> u, pins |-> {0, 1, 2}] : u \in SerialUse}
    \cup {[kind |-> "Output", pins |-> {k}] : k \in PinIdx}

NextDrop ==
  \/ \E t \in Threads : init_default(t)
  \/ \E t \in Threads : init_body(t)
  \/ \E t \in Threads : init_return(t)
  \/ \E t \in Threads : spi(t)
  \/ \E t \in Threads : i2c(t)
  \/ \E t \in Threads, k \in PinIdx : ad(t, k)
  \/ \E t \in Threads : allocate_check(t)
  \/ \E t \in Threads : allocate_claim(t)
  \/ \E t \in Threads : view_finish(t)
  \/ \E v \in AllViews : drop_view(v)

SpecDrop == Init /\ [][NextDrop]_vars

\* ------------------------------------------- allocate_pin called directly
allocate_call(idx, purpose) ==
  /\ nAlloc < MaxAllocCalls
  /\ LET r == allocate_pin(pins, idx, purpose) IN
       /\ pins' = r.pins
       /\ lastAlloc' = [idx |-> idx, purpose |-> purpose, panic |-> r.panic]
  /\ nAlloc' = nAlloc + 1
  /\ UNCHANGED <<initVars, direction, value, holders, poisoned, pc, op, todo,
                 current, cause, viewVars>>

NextAlloc == \E idx \in 0..MaxIdx, purpose \in PinUse : allocate_call(idx, purpose)

SpecAlloc == Init /\ [][NextAlloc]_vars

\* ================================================================ claims
OutputView(k) == [kind |-> "Output", pins |-> {k}]
SerialView(u) == [kind |-> u, pins |-> {0, 1, 2}]
SerialViewCount == CopiesIn(SerialView("Spi"), views) + CopiesIn(SerialView("I2c"), views)
Died(t, why) == pc[t] = "dead" /\ cause[t].kind = why

\* C1: the pin sets claimed by the peripheral views that were created are
\* pairwise disjoint: no view exists twice and no pin index belongs to two
\* views
C1_ViewsPairwiseDisjoint ==
  /\ \A v \in BagToSet(views) : CopiesIn(v, views) = 1
  /\ \A v, w \in BagToSet(views) : v # w => v.pins \cap w.pins = {}

C1_Witness ==
  /\ CopiesIn(SerialView("Spi"), views) = 1
  /\ \E k, j \in PinIdx :
       /\ k # j
       /\ CopiesIn(OutputView(k), views) = 1
       /\ CopiesIn(OutputView(j), views) = 1
  /\ \E t \in Threads : Died(t, "conflict")

\* C2: once allocate_pin(p, u1) has succeeded, a later allocate_pin(p, u2)
\* fails with the conflict panic, whatever u2 is, and the ledger still
\* records u1 at p
C2_SecondAllocationFails ==
  [][\A p \in PinIdx :
       (pins[p] # None /\ nAlloc' = nAlloc + 1 /\ lastAlloc'.idx = p)
         => /\ lastAlloc'.panic.kind = "conflict"
            /\ lastAlloc'.panic.current = Display(pins[p])
            /\ pins'[p] = pins[p]]_vars

C2_Witness ==
  /\ lastAlloc.idx \in PinIdx
  /\ lastAlloc.panic.kind = "conflict"
  /\ pins[lastAlloc.idx] \in PinUse
  /\ pins[lastAlloc.idx] # lastAlloc.purpose

\* C3: allocate_pin with an index outside 0..7 fails on the range assertion
\* and leaves all 8 ledger slots as they were
C3_OutOfRangeFailsBeforeMutation ==
  [][(nAlloc' = nAlloc + 1 /\ lastAlloc'.idx \notin PinIdx)
       => (lastAlloc'.panic.kind = "range" /\ pins' = pins)]_vars

C3_Witness ==
  /\ lastAlloc.idx \notin PinIdx
  /\ lastAlloc.panic.kind = "range"
  /\ \E p \in PinIdx : pins[p] # None

\* C4: at most one serial-bus view is ever created per wrapper, and a serial
\* acquisition returns a view only if no serial acquisition (of either kind)
\* completed before it: not with a view, not with an error, not with a panic
C4_OneSerialBusPerWrapper ==
  /\ [](SerialViewCount <= 1)
  /\ [][SerialViewCount' > SerialViewCount
          => /\ SerialViewCount = 0
             /\ errors = {}
             /\ ~poisoned
             /\ \A p \in {0, 1, 2}, t \in Threads :
                  (pc[t] = "finish" /\ pc'[t] = "idle") => pins[p] = op[t].kind]_vars

C4_Witness ==
  /\ CopiesIn(SerialView("Spi"), views) = 1
  /\ \E t \in Threads :
       /\ Died(t, "conflict")
       /\ op[t].kind = "I2c"
       /\ cause[t].idx = 0
       /\ cause[t].current = "SPI"

\* steps of an acquire_output call, as seen by a caller of adK
OutputOnce == \A k \in PinIdx : CopiesIn(OutputView(k), views) <= 1

OutputClaimStep ==
  \A t \in Threads :
    (pc[t] = "claim" /\ pc'[t] # "claim" /\ op[t].kind = "Output")
      => IF pins[op[t].idx] = None
           THEN pins'[op[t].idx] = "Output" /\ pc'[t] = "finish"
           ELSE pc'[t] = "dead" /\ cause'[t].kind = "conflict" /\ pins' = pins

OutputFinishStep ==
  \A t \in Threads :
    (pc[t] = "finish" /\ pc'[t] = "idle" /\ op[t].kind = "Output")
      => CopiesIn(OutputView(op[t].idx), views') = 1

\* the only calls that failed so far are acquire_output calls that found
\* their index, another one than k, occupied
OnlyFailedOutputsElsewhere(k) ==
  \A u \in Threads :
    pc[u] = "dead"
      => (cause[u].kind = "conflict" /\ op[u].kind = "Output" /\ op[u].idx # k)

\* C5 as stated: acquire_output(k) succeeds exactly once per wrapper, every
\* later call at k fails, and a call at a still-free index k goes through,
\* also after failed second calls at other indices
C5_Original ==
  /\ []OutputOnce
  /\ [][OutputClaimStep /\ OutputFinishStep]_vars
  /\ [][\A t \in Threads :
          (pc[t] = "idle" /\ pc'[t] # "idle")
            => \A k \in PinIdx :
                 (ad(t, k) /\ pins[k] = None /\ OnlyFailedOutputsElsewhere(k))
                   => pc'[t] = "check"]_vars

\* C5 amended: acquire_output(k) returns a view at most once per wrapper; a
\* call at a free index succeeds provided the mutex is not poisoned, a call
\* at an occupied index panics with the conflict, and that panic poisons the
\* mutex, after which every call, also at a still-free index, panics
C5_OutputOncePerIndex ==
  /\ []OutputOnce
  /\ [][OutputClaimStep /\ OutputFinishStep]_vars
  /\ [][\A t \in Threads :
          (pc[t] = "idle" /\ pc'[t] # "idle")
            => \A k \in PinIdx :
                 \/ IF poisoned
                      THEN pc'[t] = "dead" /\ cause'[t].kind = "poison"
                      ELSE pc'[t] = "check"
                 \/ ~ad(t, k)]_vars
  /\ [][\A t \in Threads :
          (pc[t] = "claim" /\ pc'[t] = "dead") => poisoned']_vars

C5_Witness ==
  \E t, u \in Threads, k, j \in PinIdx :
    /\ Died(t, "conflict") /\ op[t].kind = "Output" /\ op[t].idx = k
    /\ CopiesIn(OutputView(k), views) = 1
    /\ Died(u, "poison")
    /\ j # k /\ pins[j] = None

\* C6: the read of a slot and its claim are one critical section: two threads
\* never both hold a free reading of the same slot, a claim step succeeds
\* exactly when the slot is free in the ledger at that moment, and otherwise
\* the thread observes the conflict and the slot keeps its owner
C6_CheckAndClaimAtomic ==
  /\ [](\A t, u \in Threads :
          (t # u /\ pc[t] = "claim" /\ pc[u] = "claim"
             /\ Head(todo[t]) = Head(todo[u]))
            => ~(current[t] = None /\ current[u] = None))
  /\ [](\A p \in PinIdx :
          Cardinality({v \in BagToSet(views) : p \in v.pins}) <= 1)
  /\ [][\A t \in Threads :
          (pc[t] = "claim" /\ pc'[t] # "claim")
            => IF pins[Head(todo[t])] = None
                 THEN pins'[Head(todo[t])] = op[t].kind /\ pc'[t] # "dead"
                 ELSE /\ pc'[t] = "dead"
                      /\ cause'[t].kind = "conflict"
                      /\ cause'[t].current = Display(pins[Head(todo[t])])
                      /\ pins' = pins]_vars

C6_Witness ==
  \E t \in Threads, k \in PinIdx :
    /\ Died(t, "conflict")
    /\ op[t] = [kind |-> "Output", idx |-> k, pin |-> k]
    /\ cause[t].current = "GPIO"
    /\ views = SetToBag({OutputView(k)})
    /\ \A p \in PinIdx \ {k} : pins[p] = None

\* C7: a call of an acquisition method is in progress, or a view exists, only
\* on a wrapper whose init returned Ok; the typestate leaves Uninitialized at
\* most once and never changes again
C7_NoViewBeforeInit ==
  /\ []((views # EmptyBag \/ \E t \in Threads : pc[t] \in {"check", "claim", "finish"})
          => (phase = "Initialized" /\ initResult = "Ok" /\ driverCfg # Nothing))
  /\ [][phase' # phase => phase = "Uninitialized"]_vars
  /\ [][phase = "Uninitialized" => UNCHANGED <<pins, views, errors>>]_vars

C7_Witness ==
  /\ phase = "Initialized"
  /\ initResult = "Ok"
  /\ CopiesIn(SerialView("I2c"), views) = 1
  /\ CopiesIn(OutputView(5), views) = 1

\* C8 as stated: the mask of the configuration the driver's initialize_mpsse
\* receives is the device state's direction mask
C8_MaskIsDirection ==
  driverCfg # Nothing => driverCfg[1].mask = direction

\* C9: init_default hands the driver reset=true, 4096 bytes, 1 s read and
\* write timeouts, a 16 ms latency timer and a 100 kHz clock
C9_DefaultsPassedToDriver ==
  (entry = "init_default" /\ driverCfg # Nothing)
    => /\ driverCfg[1].reset = TRUE
       /\ driverCfg[1].in_transfer_size = 4096
       /\ driverCfg[1].read_timeout = 1000
       /\ driverCfg[1].write_timeout = 1000
       /\ driverCfg[1].latency_timer = 16
       /\ driverCfg[1].clock_frequency = Some(100000)

C9_Witness ==
  /\ entry = "init_default"
  /\ driverCfg # Nothing
  /\ phase = "Initialized"

\* C10: once a serial-bus view exists, no acquire_output(k) with k in 0..2
\* gets past the ledger, where it panics naming the serial purpose as the
\* holder, while acquire_output(k) with k in 3..7 is decided by slot k alone
C10_SerialBlocksLowPins ==
  /\ [](SerialViewCount > 0
          => \A t \in Threads :
               (op[t].kind = "Output" /\ op[t].idx \in {0, 1, 2})
                 => (pc[t] # "finish" /\ (pc[t] = "dead" => cause[t].current \in {"SPI", "I2C"})))
  /\ [](SerialViewCount > 0
          => \A k \in {0, 1, 2} : CopiesIn(OutputView(k), views) = 0)
  /\ [][\A t \in Threads :
          (SerialViewCount > 0 /\ pc[t] = "claim" /\ pc'[t] # "claim"
             /\ op[t].kind = "Output" /\ op[t].idx \in 3..7)
            => IF pins[op[t].idx] = None
                 THEN pins'[op[t].idx] = "Output" /\ pc'[t] = "finish"
                 ELSE pc'[t] = "dead" /\ cause'[t].current = "GPIO"]_vars

C10_Witness ==
  /\ CopiesIn(SerialView("Spi"), views) = 1
  /\ \E k \in 3..7 : CopiesIn(OutputView(k), views) = 1
  /\ \E t \in Threads :
       /\ Died(t, "conflict")
       /\ op[t].kind = "Output" /\ op[t].idx = 1
       /\ cause[t].current = "SPI"

\* C11: a pin-conflict panic reports the pin index, the requested purpose and
\* the purpose the ledger records for that pin at the moment of the call; a
\* second acquire_output(3) names the output purpose as both
C11_ConflictReport ==
  /\ [][\A t \in Threads :
          (pc[t] = "claim" /\ pc'[t] = "dead")
            => /\ cause'[t].kind = "conflict"
               /\ cause'[t].idx = Head(todo[t])
               /\ cause'[t].idx \in PinIdx
               /\ pins[cause'[t].idx] \in PinUse
               /\ cause'[t].current = Display(pins[cause'[t].idx])
               /\ cause'[t].purpose = Display(op[t].kind)]_vars
  /\ [](\A t \in Threads :
          (Died(t, "conflict") /\ op[t].kind = "Output")
            => /\ cause[t].idx = op[t].idx
               /\ cause[t].purpose = Display("Output")
               /\ (pins[op[t].idx] = "Output"
                     => cause[t].current = Display("Output")))

C11_Witness ==
  \E t \in Threads :
    /\ Died(t, "conflict")
    /\ op[t].kind = "Output"
    /\ cause[t] = [kind |-> "conflict", idx |-> 3, purpose |-> Display("Output"),
                   current |-> Display("Output")]
    /\ CopiesIn(OutputView(3), views) = 1

\* C12 as stated: an init call whose settings carry no clock frequency never
\* returns, neither an Initialized wrapper nor a recoverable error
C12_NoClockIsFatal ==
  (driverCfg # Nothing /\ driverCfg[1].clock_frequency = Nothing)
    => (phase # "Initialized" /\ initResult \notin {"Ok", "Timeout"})

\* C13: a ledger slot that holds a purpose holds it in every later state;
\* dropping a view leaves the ledger as it is, the pins of a dropped view stay
\* recorded for its purpose, and no view for them is handed out again
C13_LedgerMonotonic ==
  /\ [][\A p \in PinIdx : pins[p] # None => pins'[p] = pins[p]]_vars
  /\ [][dropped' # dropped => pins' = pins]_vars
  /\ [](\A v \in dropped :
          /\ CopiesIn(v, views) = 0
          /\ \A p \in v.pins : pins[p] = v.kind)

C13_Witness ==
  \E t \in Threads, k \in PinIdx :
    /\ OutputView(k) \in dropped
    /\ pins[k] = "Output"
    /\ Died(t, "conflict")
    /\ op[t].kind = "Output" /\ op[t].idx = k

\* bit p of an 8-bit mask (1 = output in the direction mask)
Bit(mask, p) == (mask \div (2 ^ p)) % 2
SerialClaimed(p) == pins[p] \in SerialUse

InScope(t) == pc[t] \in {"init_body", "init_return", "check", "claim", "finish", "xfer"}
ThreadsInScope == {t \in Threads : InScope(t)}
DeviceState == <<pins, direction, value, driverCfg>>

\* C15: at most one operation (init, a view acquisition or a view operation)
\* is inside the lock scope at a time; the operation inside is the one that
\* holds the mutex, and every step that changes the pin table, the masks or
\* the driver's configuration is a step of that single holder
C15_OneOperationInScope ==
  /\ [](Cardinality(ThreadsInScope) <= 1)
  /\ [](holders = ThreadsInScope)
  /\ [][DeviceState' # DeviceState
          => \E t \in Threads :
               /\ holders = {t}
               /\ pc'[t] # pc[t]
               /\ \A u \in Threads \ {t} : pc'[u] = pc[u] /\ ~InScope(u)]_vars

C15_Witness ==
  \E t, u \in Threads :
    /\ t # u
    /\ pc[t] = "claim" /\ op[t].kind = "Output"
    /\ pc[u] = "idle"
    /\ CopiesIn(SerialView("Spi"), views) = 1
    /\ holders = {t}

\* C16: whenever an operation inside the lock scope ends, by returning Ok,
\* by returning the driver's Timeout or by panicking, the mutex is free in
\* the next state; a thread that is not inside an operation never holds it
C16_LockReleasedOnExit ==
  /\ [][\A t \in Threads :
          (InScope(t) /\ pc'[t] \in {"idle", "dead"}) => holders' = {}]_vars
  /\ [](\A t \in Threads : pc[t] \in {"idle", "dead"} => t \notin holders)

C16_Witness ==
  \E t \in Threads :
    /\ [kind |-> "transfer", err |-> "Timeout"] \in errors
    /\ pc[t] = "xfer"
    /\ holders = {t}

\* C17: a call that finds the mutex poisoned panics at lock acquisition: it
\* never enters the lock scope, it reads no slot, and its step leaves the pin
\* table, the masks, the driver's configuration and the views as they were;
\* once the mutex is poisoned no operation is inside the scope
C17_PoisonIsFatal ==
  /\ [][\A t \in Threads :
          (poisoned /\ pc[t] = "idle" /\ pc'[t] # "idle")
            => /\ pc'[t] = "dead"
               /\ cause'[t] = PanicPoison
               /\ DeviceState' = DeviceState
               /\ current' = current
               /\ views' = views
               /\ holders' = holders]_vars
  /\ [](poisoned => ThreadsInScope = {})

C17_Witness ==
  \E t, u \in Threads :
    /\ Died(u, "conflict") /\ op[u].kind \in SerialUse
    /\ Died(t, "poison")
    /\ poisoned

\* C18: init returns the driver's result as it got it; after a Timeout the
\* consumed wrapper is gone, no Initialized wrapper exists, no view exists,
\* the ledger is empty, and no call can be made any more
C18_TimeoutPropagates ==
  /\ [][\A t \in Threads :
          (pc[t] = "init_return" /\ pc'[t] # "init_return")
            => /\ initResult' = ioResult[t]
               /\ (ioResult[t] = "Timeout" => phase' = "Dropped")]_vars
  /\ [](initResult = "Timeout"
          => /\ phase = "Dropped"
             /\ views = EmptyBag
             /\ pins = InitialPins
             /\ ThreadsInScope = {})
  /\ [][initResult # "Timeout"]_vars

C18_Witness ==
  /\ initResult = "Timeout"
  /\ entry = "init_default"
  /\ driverCfg = Some(DEFAULT)
  /\ holders = {}

\* C19: every step of init or init_default, on success and on failure,
\* leaves the pin table, the direction mask and the value mask unchanged;
\* when init returns all 8 slots are free, the direction mask is 0xFB and the
\* value mask is 0x00, as set when the device was opened
C19_InitLeavesDeviceState ==
  /\ [][(\E t \in Threads :
           pc[t] \in {"init_body", "init_return"} \/ pc'[t] = "init_body")
          => innerVars' = innerVars]_vars
  /\ [][\A t \in Threads :
          (pc[t] = "init_return" /\ pc'[t] = "idle")
            => /\ pins' = InitialPins
               /\ \A p \in PinIdx : pins'[p] = None
               /\ direction' = InitialDirection
               /\ value' = InitialValue]_vars

C19_Witness ==
  /\ phase = "Initialized"
  /\ initResult = "Ok"
  /\ entry = "init"
  /\ driverCfg # Nothing /\ driverCfg[1].mask = 255
  /\ pins = InitialPins /\ direction = InitialDirection /\ value = InitialValue
  /\ views = EmptyBag

\* the pins a serial-bus acquisition has passed: the pins of its view that
\* are no longer ahead of it
PinsPassed(t) == {0, 1, 2} \ SeqRange(todo[t])

\* C20 as stated: a serial-bus acquisition that fails on an occupied pin
\* leaves the ledger as it was before the call: every pin it found free and
\* passed before the conflict is free again
C20_SerialAllOrNothing ==
  \A t \in Threads :
    (Died(t, "conflict") /\ op[t].kind \in SerialUse)
      => \A p \in PinsPassed(t) : pins[p] = None

====
